---- MODULE Spec2Model ----
(***************************************************************************)
(* Quality-gated decision pipeline of the spark-runner service:            *)
(*   QualityChecker   (app/quality/quality_checks.py)                      *)
(*   FallbackPipeline (app/pipelines/fallback_pipeline.py)                 *)
(*   NoBetGuard       (app/policy/no_bet_guard.py)                         *)
(*   ScoringPipeline  (app/pipelines/scoring_pipeline.py)                  *)
(*   PostgresWriter   (app/storage/postgres_writer.py)                     *)
(*   /score endpoint  (app/main.py)                                        *)
(*                                                                         *)
(* Rates are Python floats in the source.  passed/total and fail/total are *)
(* compared with 1 - 0.20 and 0.20; a correctly rounded quotient equals    *)
(* the double nearest 0.8 (0.2) exactly when the rational is 4/5 (1/5),    *)
(* and otherwise differs from it by far more than one ulp, so the float    *)
(* comparisons are modelled by integer cross-multiplication in percent.    *)
(***************************************************************************)
EXTENDS Integers, Sequences, FiniteSets, TLC

\* ------------------------------------------------------------------ bounds
MaxBatch == 5
MaxMatches == 2
MaxRetries == 3
MaxTriggers == 2
MaxGuardCalls == 3
MaxOtherCalls == 2
MaxRuleBatch == 2
MaxIngestRuns == 2
MaxGames == 2
MaxScored == 2
MaxNegRetries == 1

\* ------------------------------------------------------- program constants
\* QualityChecker.CRITICAL_FAILURE_THRESHOLD = 0.20, in percent
QC_CRITICAL_FAILURE_THRESHOLD == 20
\* FallbackPipeline.CRITICAL_FAILURE_THRESHOLD = 0.20, in percent
FB_CRITICAL_FAILURE_THRESHOLD == 20
\* QualityRule.timeliness_check(max_age_hours=24)
MAX_AGE_HOURS == 24

\* ---------------------------------------------------------------- helpers
RECURSIVE SeqsUpTo(_, _)
SeqsUpTo(S, n) ==
    IF n = 0 THEN {<<>>}
    ELSE LET shorter == SeqsUpTo(S, n - 1)
         IN  shorter \cup {Append(s, x) : s \in {t \in shorter : Len(t) = n - 1}, x \in S}

RECURSIVE CountIf(_, _)
\* sum(1 for r in seq if r.status == st)
CountIf(seq, st) ==
    IF seq = <<>> THEN 0
    ELSE (IF Head(seq).status = st THEN 1 ELSE 0) + CountIf(Tail(seq), st)

\* ------------------------------------------------------------ match records
\* A raw match is a dict; a field is "absent" (no key), "null" (None) or a
\* value.  Team values are dicts carrying an id; scheduled_at is an ISO string
\* whose age relative to now is given in hours, or an unparseable string.
AbsentT == [kind |-> "absent", id |-> ""]
Team(i) == [kind |-> "dict", id |-> i]
AbsentS == [kind |-> "absent", age |-> 0]
Iso(h) == [kind |-> "iso", age |-> h]

RecPass ==
    [external_id |-> "present", home_team |-> Team("LAL"), away_team |-> Team("gsw"),
     scheduled_at |-> Iso(MAX_AGE_HOURS), season |-> "present",
     home_score |-> "absent", away_score |-> "absent"]
RecStale ==
    [RecPass EXCEPT !.scheduled_at = Iso(MAX_AGE_HOURS + 1)]
RecIncomplete ==
    [external_id |-> "present", home_team |-> AbsentT, away_team |-> AbsentT,
     scheduled_at |-> AbsentS, season |-> "absent",
     home_score |-> "absent", away_score |-> "absent"]
SampleRecords == {RecPass, RecStale, RecIncomplete}

\* A team id that is not a string (a JSON number, or null under the key)
NonStringId == "<number>"
\* a complete record whose team ids are numbers
RecRaises ==
    [RecPass EXCEPT !.home_team = Team(NonStringId), !.away_team = Team(NonStringId)]
\* home and away are the same team up to case
RecSameTeam == [RecPass EXCEPT !.away_team = Team("lal")]
\* a negative score
RecNegScore == [RecPass EXCEPT !.home_score = "negative"]
QualityRecords == SampleRecords \cup {RecRaises, RecSameTeam, RecNegScore}

\* scheduled_at is a string that datetime.fromisoformat rejects
RecGarbageDate == [RecPass EXCEPT !.scheduled_at = [kind |-> "garbage", age |-> 0]]
\* the home_team key is there and holds None
RecNullTeam == [RecPass EXCEPT !.home_team = [kind |-> "null", id |-> ""]]
\* a score that is not a number
RecBadScoreType == [RecPass EXCEPT !.away_score = "nan"]
\* a passing record with another external_id
RecSecond == [RecPass EXCEPT !.external_id = "m2"]
RuleRecords ==
    QualityRecords \cup {RecGarbageDate, RecNullTeam, RecBadScoreType, RecSecond}

\* str.lower() on the team identifiers in use
Lower(s) == IF s = "LAL" THEN "lal" ELSE s

\* ------------------------------------------------------------------- rules
\* A rule result: rule_name, passed, severity; raised = the rule threw.
RuleResult(n, p, sev) == [rule_name |-> n, passed |-> p, severity |-> sev, raised |-> FALSE]
\* rule.check(match_data) left by an exception: no RuleResult exists
RuleRaised(n) == [rule_name |-> n, passed |-> FALSE, severity |-> "none", raised |-> TRUE]

FieldMissing(m, f) ==
    CASE f = "external_id" -> m.external_id \in {"absent", "null"}
      [] f = "home_team" -> m.home_team.kind \in {"absent", "null"}
      [] f = "away_team" -> m.away_team.kind \in {"absent", "null"}
      [] f = "scheduled_at" -> m.scheduled_at.kind \in {"absent", "null"}
      [] f = "season" -> m.season \in {"absent", "null"}

REQUIRED_FIELDS == <<"external_id", "home_team", "away_team", "scheduled_at", "season">>

_check_completeness(m) ==
    LET missing == SelectSeq(REQUIRED_FIELDS, LAMBDA f : FieldMissing(m, f))
        passed == Len(missing) = 0
    IN  RuleResult("completeness", passed, IF passed THEN "info" ELSE "error")

ScoreInvalid(s) == s \in {"negative", "nan"}

\* The date branch only calls str.replace on the value and drops the result:
\* it never raises, so scheduled_at never adds an invalid field.
_check_validity(m) ==
    LET invalid == SelectSeq(<<m.home_score, m.away_score>>, ScoreInvalid)
        passed == Len(invalid) = 0
    IN  RuleResult("validity", passed, IF passed THEN "info" ELSE "error")

_check_consistency(m) ==
    LET bothKeys == m.home_team.kind # "absent" /\ m.away_team.kind # "absent"
        bothDicts == m.home_team.kind = "dict" /\ m.away_team.kind = "dict"
        home_id == Lower(m.home_team.id)
        away_id == Lower(m.away_team.id)
        same == bothKeys /\ bothDicts /\ home_id # "" /\ away_id # "" /\ home_id = away_id
        missing == m.home_team.kind = "absent" \/ m.away_team.kind = "absent"
        passed == ~same /\ ~missing
        \* home.get("id", "").lower(): AttributeError on an id that is no string
        raises == bothKeys /\ bothDicts
                    /\ (m.home_team.id = NonStringId \/ m.away_team.id = NonStringId)
    IN  IF raises THEN RuleRaised("consistency")
        ELSE RuleResult("consistency", passed, IF passed THEN "info" ELSE "error")

_check_timeliness(m) ==
    LET present == m.scheduled_at.kind \in {"iso", "garbage"}
        parseError == m.scheduled_at.kind = "garbage"
        stale == m.scheduled_at.kind = "iso" /\ m.scheduled_at.age > MAX_AGE_HOURS
        passed == ~(present /\ (parseError \/ stale))
    IN  RuleResult("timeliness", passed, IF passed THEN "info" ELSE "warning")

\* _setup_default_rules: the four rules, in order
RuleResults(m) ==
    <<_check_completeness(m), _check_validity(m), _check_consistency(m), _check_timeliness(m)>>

IsError(r) == r.raised \/ (~r.passed /\ r.severity = "error")
IsWarning(r) == ~r.raised /\ ~r.passed /\ r.severity # "error"
\* rule_results.append(result) is reached only when rule.check returned
IsReturned(r) == ~r.raised

\* f"{rule.name}_error", the label of the error string of a rule that raised
RuleErrorName(n) ==
    CASE n = "completeness" -> "completeness_error"
      [] n = "validity" -> "validity_error"
      [] n = "consistency" -> "consistency_error"
      [] n = "timeliness" -> "timeliness_error"

\* the label an error string starts with
ErrorLabel(r) == IF r.raised THEN RuleErrorName(r.rule_name) ELSE r.rule_name

\* match_data.get("external_id", "unknown")
MatchIdOf(m) == IF m.external_id = "absent" THEN "unknown" ELSE m.external_id

\* validate_match whose status lets a warning hide an error
validate_match_WarningFirst(m) ==
    LET rr == RuleResults(m)
        errors == SelectSeq(rr, IsError)
        warnings == SelectSeq(rr, IsWarning)
        returned == SelectSeq(rr, IsReturned)
    IN  [match_id |-> MatchIdOf(m),
         status |-> IF warnings # <<>> THEN "warning"
                    ELSE IF errors # <<>> THEN "fail" ELSE "pass",
         errors |-> [i \in 1..Len(errors) |-> ErrorLabel(errors[i])],
         warnings |-> [i \in 1..Len(warnings) |-> warnings[i].rule_name],
         rule_results |-> [i \in 1..Len(returned) |->
                              [rule_name |-> returned[i].rule_name,
                               passed |-> returned[i].passed,
                               severity |-> returned[i].severity]]]

validate_match(m) ==
    LET rr == RuleResults(m)
        errors == SelectSeq(rr, IsError)
        warnings == SelectSeq(rr, IsWarning)
        returned == SelectSeq(rr, IsReturned)
    IN  [match_id |-> MatchIdOf(m),
         status |-> IF errors # <<>> THEN "fail"
                    ELSE IF warnings # <<>> THEN "warning" ELSE "pass",
         errors |-> [i \in 1..Len(errors) |-> ErrorLabel(errors[i])],
         warnings |-> [i \in 1..Len(warnings) |-> warnings[i].rule_name],
         rule_results |-> [i \in 1..Len(returned) |->
                              [rule_name |-> returned[i].rule_name,
                               passed |-> returned[i].passed,
                               severity |-> returned[i].severity]]]

\* validate_batch that returns the outcomes last record first
validate_batch_Reversed(ms) == [i \in 1..Len(ms) |-> validate_match(ms[Len(ms) + 1 - i])]

validate_batch(ms) == [i \in 1..Len(ms) |-> validate_match(ms[i])]

\* round(passed / total, 2) in percent (round half to even; the quotient is an
\* exact double on a tie only for odd multiples of 1/8)
RoundPct(p, t) ==
    LET q == (100 * p) \div t
        r == (100 * p) % t
    IN  IF 2 * r < t THEN q
        ELSE IF 2 * r > t THEN q + 1
        ELSE IF q % 2 = 0 THEN q ELSE q + 1

NoSummary ==
    [total_matches |-> 0, passed |-> 0, failed |-> 0, pass_rate |-> 0,
     critical_failure |-> FALSE, computed |-> FALSE]

\* get_quality_summary whose comparison with the accepted rate is not strict
get_quality_summary_NotStrict(results) ==
    LET total == Len(results)
        passed == CountIf(results, "pass")
    IN  IF total = 0
        THEN [total_matches |-> 0, passed |-> 0, failed |-> 0, pass_rate |-> 0,
              critical_failure |-> FALSE, computed |-> TRUE]
        ELSE [total_matches |-> total, passed |-> passed, failed |-> total - passed,
              pass_rate |-> RoundPct(passed, total),
              critical_failure |-> 100 * passed <= (100 - QC_CRITICAL_FAILURE_THRESHOLD) * total,
              computed |-> TRUE]

get_quality_summary(results) ==
    LET total == Len(results)
        passed == CountIf(results, "pass")
    IN  IF total = 0
        THEN [total_matches |-> 0, passed |-> 0, failed |-> 0, pass_rate |-> 0,
              critical_failure |-> FALSE, computed |-> TRUE]
        ELSE [total_matches |-> total, passed |-> passed, failed |-> total - passed,
              pass_rate |-> RoundPct(passed, total),
              critical_failure |-> 100 * passed < (100 - QC_CRITICAL_FAILURE_THRESHOLD) * total,
              computed |-> TRUE]

\* ------------------------------------------------------- FallbackPipeline
\* FallbackPipeline.__init__
NewFallback ==
    [status |-> "pending", error_cause |-> "none", error_details |-> "none",
     was_triggered |-> FALSE, cascading_failure |-> FALSE,
     fallback_events |-> <<>>, triggered_at_set |-> FALSE]

\* The return value of a fetch or of trigger_fallback_if_needed:
\* None, or a list of matches.
NoneResult == [is_none |-> TRUE, data |-> <<>>]
ListResult(d) == [is_none |-> FALSE, data |-> d]

\* What requests.get / response.json() gives: a failure kind, or a JSON body
\* of some format carrying a sequence of items.  An item "bad" is an event
\* whose normalisation raises.
Failure(k) == [kind |-> k, format |-> "none", items |-> <<>>, items_null |-> FALSE]
Body(fmt, its) == [kind |-> "body", format |-> fmt, items |-> its, items_null |-> FALSE]
\* a JSON object whose "events" or "games" key holds null
NullBody(fmt) == [kind |-> "body", format |-> fmt, items |-> <<>>, items_null |-> TRUE]

\* one normalised match of _convert_thesportsdb_format
ConvertEvent(e) == [external_id |-> <<"tsdb", e>>]

RECURSIVE _convert_thesportsdb_format(_)
_convert_thesportsdb_format(events) ==
    IF events = <<>> THEN <<>>
    ELSE IF Head(events) = "bad"
         THEN _convert_thesportsdb_format(Tail(events))
         ELSE <<ConvertEvent(Head(events))>> \o _convert_thesportsdb_format(Tail(events))

\* "games" entries and list bodies are returned as they are
RawMatch(e) == [external_id |-> <<"raw", e>>]
RawMatches(items) == [i \in 1..Len(items) |-> RawMatch(items[i])]

\* ResponseMatches where one event that cannot be normalised loses the batch
ResponseMatchesAllOrNothing(resp) ==
    CASE resp.format = "events" ->
            IF \E i \in 1..Len(resp.items) : resp.items[i] = "bad" THEN <<>>
            ELSE _convert_thesportsdb_format(resp.items)
      [] resp.format = "games" -> RawMatches(resp.items)
      [] resp.format = "list" -> RawMatches(resp.items)
      [] OTHER -> <<>>

ResponseMatches(resp) ==
    CASE resp.format = "events" -> _convert_thesportsdb_format(resp.items)
      [] resp.format = "games" -> RawMatches(resp.items)
      [] resp.format = "list" -> RawMatches(resp.items)
      [] OTHER -> <<>>

\* fetch_from_fallback, line 73: the status is set before the request is sent
FetchStart(f) == [f EXCEPT !.status = "triggered"]

FetchFailed(f, cause, details) ==
    [fb |-> [f EXCEPT !.status = "failed", !.error_cause = cause, !.error_details = details],
     ret |-> NoneResult]

\* FetchFinish that takes a body without records for a success
FetchFinishEmptyIsSuccess(f, resp) ==
    CASE resp.kind = "timeout" -> FetchFailed(f, "FALLBACK_TIMEOUT", "timeout")
      [] resp.kind = "http_error" -> FetchFailed(f, "FALLBACK_HTTP_ERROR", "http_status")
      [] resp.kind = "request_exception" -> FetchFailed(f, "FALLBACK_UNAVAILABLE", "request")
      [] resp.kind = "exception" -> FetchFailed(f, "FALLBACK_ERROR", "exception")
      [] resp.kind = "body" /\ resp.format = "events" /\ resp.items_null ->
            FetchFailed(f, "FALLBACK_ERROR", "type_error")
      [] OTHER -> [fb |-> [f EXCEPT !.status = "success"],
                   ret |-> ListResult(ResponseMatches(resp))]

\* fetch_from_fallback, lines 76-134: the response is handled
FetchFinish(f, resp) ==
    CASE resp.kind = "timeout" -> FetchFailed(f, "FALLBACK_TIMEOUT", "timeout")
      [] resp.kind = "http_error" -> FetchFailed(f, "FALLBACK_HTTP_ERROR", "http_status")
      [] resp.kind = "request_exception" -> FetchFailed(f, "FALLBACK_UNAVAILABLE", "request")
      [] resp.kind = "exception" -> FetchFailed(f, "FALLBACK_ERROR", "exception")
      \* data.get("events", []) is None: the conversion iterates None, TypeError
      [] resp.kind = "body" /\ resp.format = "events" /\ resp.items_null ->
            FetchFailed(f, "FALLBACK_ERROR", "type_error")
      [] OTHER ->
            LET matches == ResponseMatches(resp)
            IN  IF matches # <<>>
                THEN [fb |-> [f EXCEPT !.status = "success"], ret |-> ListResult(matches)]
                ELSE FetchFailed(f, "FALLBACK_EMPTY_RESPONSE", "empty")

TriggeredEvent(total, failed) ==
    [type |-> "FALLBACK_TRIGGERED", total |-> total, failed |-> failed,
     reason |-> "threshold", matches_recovered |-> 0]
FailedEvent(cause) ==
    [type |-> "FALLBACK_FAILED", total |-> 0, failed |-> 0,
     reason |-> cause, matches_recovered |-> 0]
SuccessEvent(n) ==
    [type |-> "FALLBACK_SUCCESS", total |-> 0, failed |-> 0,
     reason |-> "none", matches_recovered |-> n]

\* trigger_fallback_if_needed, lines 216-223: fail_rate < CRITICAL_FAILURE_THRESHOLD
QualityAcceptable(results) ==
    100 * CountIf(results, "fail") < FB_CRITICAL_FAILURE_THRESHOLD * Len(results)

\* trigger_fallback_if_needed, lines 212-226: the fallback is not fired
TriggerNotNeeded(results) == results = <<>> \/ QualityAcceptable(results)

\* TriggerSkip that logs the call it did not fire
TriggerSkipLogsEvent(f, results) ==
    IF results = <<>> THEN f
    ELSE [f EXCEPT !.was_triggered = FALSE,
                   !.fallback_events = Append(@, TriggeredEvent(Len(results), 0))]

\* TriggerSkip that raises cascading_failure on a call that did not fire
TriggerSkipCascades(f, results) ==
    IF results = <<>> THEN [f EXCEPT !.cascading_failure = TRUE]
    ELSE [f EXCEPT !.was_triggered = FALSE, !.cascading_failure = TRUE]

\* TriggerSkip that puts the pipeline back to its initial status
TriggerSkipResetsStatus(f, results) ==
    IF results = <<>> THEN f
    ELSE [f EXCEPT !.was_triggered = FALSE, !.status = "pending", !.error_cause = "none"]

\* lines 212-226: the pipeline after a call that does not fire
TriggerSkip(f, results) ==
    IF results = <<>> THEN f ELSE [f EXCEPT !.was_triggered = FALSE]

\* lines 229-248: the pipeline when the fetch is entered
TriggerFire(f, results) ==
    FetchStart([f EXCEPT !.was_triggered = TRUE,
                         !.triggered_at_set = TRUE,
                         !.fallback_events =
                             Append(@, TriggeredEvent(Len(results), CountIf(results, "fail")))])

\* TriggerComplete that logs the failure without raising cascading_failure
TriggerCompleteNoCascade(f, r) ==
    IF r.is_none
    THEN [f EXCEPT !.fallback_events = Append(@, FailedEvent(f.error_cause))]
    ELSE [f EXCEPT !.fallback_events = Append(@, SuccessEvent(Len(r.data)))]

\* TriggerComplete where a fetch that succeeds takes cascading_failure back
TriggerCompleteResetsOnSuccess(f, r) ==
    IF r.is_none
    THEN [f EXCEPT !.cascading_failure = TRUE,
                   !.fallback_events = Append(@, FailedEvent(f.error_cause))]
    ELSE [f EXCEPT !.cascading_failure = FALSE,
                   !.fallback_events = Append(@, SuccessEvent(Len(r.data)))]

\* lines 250-275: the pipeline after the fetch returned r
TriggerComplete(f, r) ==
    IF r.is_none
    THEN [f EXCEPT !.cascading_failure = TRUE,
                   !.fallback_events = Append(@, FailedEvent(f.error_cause))]
    ELSE [f EXCEPT !.fallback_events = Append(@, SuccessEvent(Len(r.data)))]

\* ------------------------------------------------------------- NoBetGuard
\* NoBetGuard.__init__
NewGuard == [current_mode |-> "normal", is_degraded |-> FALSE, audit_trail |-> <<>>]

NoDecision ==
    [mode |-> "none", allow_betting |-> FALSE, reason |-> "none",
     fallback_used |-> FALSE, fallback_failed |-> FALSE, fallback_matches |-> 0]

\* Decide with the blocking branch letting betting through
DecideAllowsOnNoBet(quality_summary, fallback_result) ==
    IF ~quality_summary.critical_failure
    THEN [mode |-> "normal", allow_betting |-> TRUE, reason |-> "quality_acceptable",
          fallback_used |-> FALSE, fallback_failed |-> FALSE, fallback_matches |-> 0]
    ELSE IF ~fallback_result.is_none
    THEN [mode |-> "degraded-fallback", allow_betting |-> TRUE,
          reason |-> "critical_quality_fallback_ok_vigilance",
          fallback_used |-> TRUE, fallback_failed |-> FALSE,
          fallback_matches |-> Len(fallback_result.data)]
    ELSE [mode |-> "degraded-no-bet", allow_betting |-> TRUE,
          reason |-> "insufficient_quality_and_fallback_failed",
          fallback_used |-> FALSE, fallback_failed |-> TRUE, fallback_matches |-> 0]

\* evaluate_run_status, lines 81-131: the decision tree
Decide(quality_summary, fallback_result) ==
    IF ~quality_summary.critical_failure
    THEN [mode |-> "normal", allow_betting |-> TRUE, reason |-> "quality_acceptable",
          fallback_used |-> FALSE, fallback_failed |-> FALSE, fallback_matches |-> 0]
    ELSE IF ~fallback_result.is_none
    THEN [mode |-> "degraded-fallback", allow_betting |-> TRUE,
          reason |-> "critical_quality_fallback_ok_vigilance",
          fallback_used |-> TRUE, fallback_failed |-> FALSE,
          fallback_matches |-> Len(fallback_result.data)]
    ELSE [mode |-> "degraded-no-bet", allow_betting |-> FALSE,
          reason |-> "insufficient_quality_and_fallback_failed",
          fallback_used |-> FALSE, fallback_failed |-> TRUE, fallback_matches |-> 0]

\* the dicts the operator overrides hand to _log_decision as quality_summary
ForcedSummary == [forced |-> TRUE]
ResetSummary == [reset |-> TRUE]

\* _log_decision, lines 152-157: quality_summary.get of the four keys it
\* copies; a dict without them gives None for each
SummarySnapshot(quality_summary) ==
    IF "pass_rate" \in DOMAIN quality_summary
    THEN [is_none |-> FALSE,
          pass_rate |-> quality_summary.pass_rate,
          critical_failure |-> quality_summary.critical_failure,
          total_matches |-> quality_summary.total_matches,
          failed |-> quality_summary.failed]
    ELSE [is_none |-> TRUE, pass_rate |-> 0, critical_failure |-> FALSE,
          total_matches |-> 0, failed |-> 0]

\* _log_decision: the audit entry of a decision; its keys are mode,
\* allow_betting, reason and the snapshot (timestamp and trace_id left out),
\* nothing is taken from decision.metadata
AuditEntry(decision, quality_summary) ==
    [mode |-> decision.mode, allow_betting |-> decision.allow_betting,
     reason |-> decision.reason,
     quality_summary |-> SummarySnapshot(quality_summary)]

\* GuardAfter that stays in degraded-no-bet once it is there
GuardAfterLatching(g, decision, quality_summary) ==
    [current_mode |-> IF g.current_mode = "degraded-no-bet"
                      THEN g.current_mode ELSE decision.mode,
     is_degraded |-> g.current_mode = "degraded-no-bet" \/ decision.mode # "normal",
     audit_trail |-> Append(g.audit_trail, AuditEntry(decision, quality_summary))]

\* evaluate_run_status, lines 133-138: the guard after a decision
GuardAfter(g, decision, quality_summary) ==
    [current_mode |-> decision.mode,
     is_degraded |-> decision.mode # "normal",
     audit_trail |-> Append(g.audit_trail, AuditEntry(decision, quality_summary))]

\* evaluate_run_status: the guard afterwards and the decision returned
evaluate_run_status(g, quality_summary, fallback_result) ==
    LET d == Decide(quality_summary, fallback_result)
    IN  [guard |-> GuardAfter(g, d, quality_summary), decision |-> d]

\* the decision built by force_degraded_mode, metadata {"forced": True}
ForcedDecision ==
    [mode |-> "degraded-no-bet", allow_betting |-> FALSE, reason |-> "forced_manual",
     forced |-> TRUE]
\* the decision built by reset_to_normal, metadata {"reset": True}
ResetDecision ==
    [mode |-> "normal", allow_betting |-> TRUE, reason |-> "back_to_normal",
     reset |-> TRUE]

\* force_degraded_mode that leaves the flag as it was
force_degraded_mode_FlagKept(g) ==
    [guard |-> [current_mode |-> ForcedDecision.mode,
                is_degraded |-> g.is_degraded,
                audit_trail |-> Append(g.audit_trail, AuditEntry(ForcedDecision, ForcedSummary))],
     decision |-> ForcedDecision]

\* force_degraded_mode
force_degraded_mode(g) ==
    [guard |-> [current_mode |-> ForcedDecision.mode,
                is_degraded |-> TRUE,
                audit_trail |-> Append(g.audit_trail, AuditEntry(ForcedDecision, ForcedSummary))],
     decision |-> ForcedDecision]

\* reset_to_normal that starts the trail afresh
reset_to_normal_ClearsTrail(g) ==
    [guard |-> [current_mode |-> ResetDecision.mode,
                is_degraded |-> FALSE,
                audit_trail |-> <<AuditEntry(ResetDecision, ResetSummary)>>],
     decision |-> ResetDecision]

\* reset_to_normal
reset_to_normal(g) ==
    [guard |-> [current_mode |-> ResetDecision.mode,
                is_degraded |-> FALSE,
                audit_trail |-> Append(g.audit_trail, AuditEntry(ResetDecision, ResetSummary))],
     decision |-> ResetDecision]

\* -------------------------------------------------------- ScoringPipeline
\* ExclusionChecker(min_quality_score=80.0), ScoringPipeline.__init__
MIN_QUALITY_SCORE == 80
\* ExclusionChecker(min_history_games=5)
MIN_HISTORY_GAMES == 5
\* WinnerModel.home_advantage = 3.0
HOME_ADVANTAGE == 3
\* the form weight of WinnerModel.predict
FORM_WEIGHT == 5

\* Identifiers are strings, modelled as sequences of characters.
RunIds == {<<"r">>, <<"r", "_">>}
\* numeric is FALSE for a stats dict that holds null under avg_points
NoStats == [kind |-> "absent", games |-> 0, form |-> 0, numeric |-> TRUE]
Stats(g, f) == [kind |-> "dict", games |-> g, form |-> f, numeric |-> TRUE]
NullStat(g) == [kind |-> "dict", games |-> g, form |-> 0, numeric |-> FALSE]

SM_home ==
    [external_id |-> <<"m">>, status |-> "scheduled",
     home_stats |-> Stats(MIN_HISTORY_GAMES, 1), away_stats |-> Stats(MIN_HISTORY_GAMES, 1),
     quality_score |-> MIN_QUALITY_SCORE, scheduled_at |-> "iso"]
SM_away == [SM_home EXCEPT !.away_stats = Stats(MIN_HISTORY_GAMES, 2)]
SM_other == [SM_home EXCEPT !.external_id = <<"_", "m">>]
SM_lowq == [SM_home EXCEPT !.quality_score = MIN_QUALITY_SCORE - 1]
SampleMatches == {SM_home, SM_away, SM_other, SM_lowq}

\* matches to which several exclusion reasons apply at once
SM_final ==
    [SM_home EXCEPT !.status = "final", !.home_stats = NoStats,
                    !.quality_score = MIN_QUALITY_SCORE - 1]
SM_nostats ==
    [SM_home EXCEPT !.status = "absent", !.away_stats = NoStats,
                    !.quality_score = MIN_QUALITY_SCORE - 1]
SM_lowq_short ==
    [SM_home EXCEPT !.quality_score = MIN_QUALITY_SCORE - 1,
                    !.home_stats = Stats(MIN_HISTORY_GAMES - 1, 1)]
SM_short ==
    [SM_home EXCEPT !.status = "upcoming", !.away_stats = Stats(MIN_HISTORY_GAMES - 1, 1)]
\* an eligible match whose home_stats hold "avg_points": null
SM_nullstat ==
    [SM_home EXCEPT !.external_id = <<"n">>, !.home_stats = NullStat(MIN_HISTORY_GAMES)]
ScoringMatches ==
    {SM_home, SM_other, SM_lowq, SM_final, SM_nostats, SM_lowq_short, SM_short, SM_nullstat}

\* ExclusionChecker.check that looks at the history before the quality
ExclusionReasonHistoryFirst(m) ==
    IF m.status \notin {"scheduled", "upcoming", "absent"} THEN "invalid_status"
    ELSE IF m.home_stats.kind # "dict" \/ m.away_stats.kind # "dict" THEN "missing_data"
    ELSE IF m.home_stats.games < MIN_HISTORY_GAMES \/ m.away_stats.games < MIN_HISTORY_GAMES
         THEN "insufficient_history"
    ELSE IF m.quality_score < MIN_QUALITY_SCORE THEN "insufficient_quality"
    ELSE "none"

\* ExclusionChecker.check: the first applicable reason, "none" when eligible
ExclusionReason(m) ==
    IF m.status \notin {"scheduled", "upcoming", "absent"} THEN "invalid_status"
    ELSE IF m.home_stats.kind # "dict" \/ m.away_stats.kind # "dict" THEN "missing_data"
    ELSE IF m.quality_score < MIN_QUALITY_SCORE THEN "insufficient_quality"
    ELSE IF m.home_stats.games < MIN_HISTORY_GAMES \/ m.away_stats.games < MIN_HISTORY_GAMES
         THEN "insufficient_history"
    ELSE "none"

IsEligible(m) == ExclusionReason(m) = "none"
IsExcluded(m) == ExclusionReason(m) # "none"

\* ExclusionChecker.check_batch
check_batch(ms) ==
    LET ex == SelectSeq(ms, IsExcluded)
    IN  [eligible |-> SelectSeq(ms, IsEligible),
         exclusions |-> [i \in 1..Len(ex) |->
                            [match_id |-> ex[i].external_id, reason |-> ExclusionReason(ex[i])]]]

\* WinnerModel.predict on the form and home-advantage terms
PredictWinner(home_stats, away_stats) ==
    IF home_stats.form * FORM_WEIGHT + HOME_ADVANTAGE > away_stats.form * FORM_WEIGHT
    THEN "home" ELSE "away"

\* _generate_signal_for_match
_generate_signal_for_match(m) ==
    [match_id |-> m.external_id, winner |-> PredictWinner(m.home_stats, m.away_stats),
     scheduled_at |-> m.scheduled_at]

\* _generate_signal_for_match, lines 146-194: WinnerModel.predict computes
\* avg_points - 100, which raises on null; the except branch returns None
GenerationRaises(m) == ~m.home_stats.numeric \/ ~m.away_stats.numeric

\* score_matches, lines 104-108: the signals that are not None, in order
GenerateSignals(eligible) ==
    LET made == SelectSeq(eligible, LAMBDA m : ~GenerationRaises(m))
    IN  [i \in 1..Len(made) |-> _generate_signal_for_match(made[i])]

\* score_matches that tries to persist an empty list of signals too
NeedsPersistAlways(sigs) == TRUE

\* score_matches, line 114: if signals
NeedsPersist(sigs) == sigs # <<>>

\* score_matches, lines 69-82: the result before any step
InitialResult(ms) ==
    [status |-> "success", signals |-> <<>>, exclusions |-> <<>>, error_cause |-> "none",
     stats |-> [total |-> Len(ms), eligible |-> 0, excluded |-> 0, signals_generated |-> 0]]

\* score_matches, lines 86-111: the result after filtering and generation
ScoredResult(ms) ==
    LET cb == check_batch(ms)
        sigs == GenerateSignals(cb.eligible)
    IN  [status |-> "success", signals |-> sigs, exclusions |-> cb.exclusions,
         error_cause |-> "none",
         stats |-> [total |-> Len(ms), eligible |-> Len(cb.eligible),
                    excluded |-> Len(cb.exclusions), signals_generated |-> Len(sigs)]]

\* ScoreFailed that reports the failure but leaves the signals in the result
ScoreFailedKeepsSignals(res, cause) ==
    [res EXCEPT !.status = "failed", !.error_cause = cause]

\* score_matches, lines 122-127: the except branch
ScoreFailed(res, cause) ==
    [res EXCEPT !.status = "failed", !.error_cause = cause, !.signals = <<>>]

\* --------------------------------------------------------- PostgresWriter
\* save_signals, line 226: id = f"{run_id}_{match_id}"
SignalRowId(rid, mid) == rid \o <<"_">> \o mid

\* save_signals, lines 225-245: the SignalEntity of one signal
SignalEntity(rid, sig) ==
    [id |-> SignalRowId(rid, sig.match_id), run_id |-> rid, match_id |-> sig.match_id,
     winner |-> sig.winner, scheduled_at |-> sig.scheduled_at]

\* save_signals, lines 224-246 raise on a signal whose scheduled_at is None
BuildRaises(sigs) == \E i \in 1..Len(sigs) : sigs[i].scheduled_at = "null"

\* Merge as a plain INSERT: the stored row of that id is kept
MergeInserts(rows, row) == rows \cup {row}

\* session.merge on the primary key: the row replaces the stored row of that id
Merge(rows, row) == {r \in rows : r.id # row.id} \cup {row}

RECURSIVE MergeAll(_, _)
MergeAll(rows, entities) ==
    IF entities = <<>> THEN rows
    ELSE MergeAll(Merge(rows, Head(entities)), Tail(entities))

\* StoreDuringMerge of a session in autocommit: each merge is written at once
StoreDuringMergeAutocommit(rows, row) == Merge(rows, row)

\* save_signals, lines 222 and 249-250: inside "with session.begin()" a merge is
\* pending in the transaction, the committed rows are not touched
StoreDuringMerge(rows, row) == rows

\* leaving "with session.begin()" normally commits the pending merges at once
CommitTxn(rows, pending) == MergeAll(rows, pending)

\* leaving it by an exception rolls the transaction back
RollbackTxn(rows, pending) == rows

\* HasNextAttempt off by one: one more attempt than max_retries
HasNextAttemptOffByOne(a, n) == a <= n

\* _persist_signals_with_retry, line 226: attempt < self.max_retries
HasNextAttempt(a, n) == a < n

\* a retry loop that tries once before it looks at max_retries
HasFirstAttemptAlways(n) == TRUE

\* _persist_signals_with_retry, line 215: range(1, max_retries + 1) is not empty
HasFirstAttempt(n) == 1 <= n

\* the base delay of the backoff, 0.5 s, in milliseconds
BACKOFF_BASE_MS == 500

\* a backoff that waits the base delay whatever the attempt
BackoffDelayConstant(a) == BACKOFF_BASE_MS

\* time.sleep(0.5 * attempt), in milliseconds
BackoffDelay(a) == BACKOFF_BASE_MS * a

\* ------------------------------------------------------------ ingestion
\* IngestPipeline.__init__
NewIngest ==
    [status |-> "pending", error_cause |-> "none", error_details_set |-> FALSE,
     collected_matches |-> <<>>]
NoIngestionResult ==
    [status |-> "none", matches_count |-> 0, matches |-> <<>>, error_cause |-> "none",
     error_details_set |-> FALSE]

\* what requests.get on the primary source can do: raise one of the three
\* request exceptions, or answer a JSON body; the body is a dict with a
\* list under "games", a dict with null under "games", a dict without the
\* key, or not a dict at all
SourceRaises(k) == [kind |-> k, games_kind |-> "absent", games |-> <<>>]
SourceBody(gk, gs) == [kind |-> "json", games_kind |-> gk, games |-> gs]
RawGames == {"g1", "g2", "invalid"}
SourceResponses ==
    {SourceRaises(k) : k \in {"timeout", "http_error", "unavailable", "not_a_dict"}}
        \cup {SourceBody("null", <<>>), SourceBody("absent", <<>>)}
        \cup {SourceBody("list", gs) : gs \in SeqsUpTo(RawGames, MaxGames)}

\* fetch_matches_from_source from status COLLECTING on: the three request
\* exceptions are caught and give None with a cause; data.get on a body
\* that is not a dict and len(None) raise and nothing here catches them
fetch_matches_from_source(p, src) ==
    CASE src.kind = "timeout" ->
           [pipeline |-> [p EXCEPT !.status = "source_error", !.error_cause = "SOURCE_TIMEOUT",
                                   !.error_details_set = TRUE],
            ret |-> "none", matches |-> <<>>]
      [] src.kind = "http_error" ->
           [pipeline |-> [p EXCEPT !.status = "source_error", !.error_cause = "SOURCE_HTTP_ERROR",
                                   !.error_details_set = TRUE],
            ret |-> "none", matches |-> <<>>]
      [] src.kind = "unavailable" ->
           [pipeline |-> [p EXCEPT !.status = "source_error", !.error_cause = "SOURCE_UNAVAILABLE",
                                   !.error_details_set = TRUE],
            ret |-> "none", matches |-> <<>>]
      [] src.kind = "not_a_dict" -> [pipeline |-> p, ret |-> "raised", matches |-> <<>>]
      [] src.games_kind = "null" -> [pipeline |-> p, ret |-> "raised", matches |-> <<>>]
      [] src.games_kind = "absent" -> [pipeline |-> p, ret |-> "list", matches |-> <<>>]
      [] OTHER -> [pipeline |-> p, ret |-> "list", matches |-> src.games]

\* validate_matches_batch: the records that pass the MatchInput contract
validate_matches_batch(ms) == SelectSeq(ms, LAMBDA g : g # "invalid")

ErrorResult(p) ==
    [status |-> "error", matches_count |-> 0, matches |-> <<>>,
     error_cause |-> p.error_cause, error_details_set |-> p.error_details_set]
SuccessResult(valid) ==
    [status |-> "success", matches_count |-> Len(valid), matches |-> valid,
     error_cause |-> "none", error_details_set |-> FALSE]

\* run that takes a failed collection for an empty one
IngestRunNoneAsEmpty(p, src) ==
    LET f == fetch_matches_from_source(p, src)
        valid == validate_matches_batch(f.matches)
    IN  [pipeline |-> [f.pipeline EXCEPT !.status = "success", !.collected_matches = valid],
         result |-> SuccessResult(valid)]

\* IngestPipeline.run after the source answered
IngestRun(p, src) ==
    LET f == fetch_matches_from_source(p, src)
        valid == validate_matches_batch(f.matches)
        failed == [f.pipeline EXCEPT !.status = "source_error",
                                     !.error_cause = "PIPELINE_ERROR",
                                     !.error_details_set = TRUE]
    IN  CASE f.ret = "none" -> [pipeline |-> f.pipeline, result |-> ErrorResult(f.pipeline)]
          [] f.ret = "raised" -> [pipeline |-> failed, result |-> ErrorResult(failed)]
          [] OTHER ->
               [pipeline |-> [f.pipeline EXCEPT !.status = "success",
                                                !.collected_matches = valid],
                result |-> SuccessResult(valid)]


\* ------------------------------------------------------------------ state
VARIABLES
    batch,          \* the raw batch of the run
    response,       \* what the secondary source answers in this run
    pc,             \* position of the run: start, validated, summarized,
                    \*   fetching, fallback_done, decided
    results,        \* validate_batch(batch)
    summary,        \* get_quality_summary(results)
    fb,             \* the FallbackPipeline instance
    fb_result,      \* return value of trigger_fallback_if_needed
    fetch_calls,    \* number of calls of fetch_from_fallback
    guard,          \* the NoBetGuard instance
    decision,       \* the GuardDecision returned by evaluate_run_status
    max_retries,    \* ScoringPipeline.max_retries
    matches,        \* the matches of the request being scored
    sc_pc,          \* position of score_matches: idle, attempt, txn, backoff, done
    run_id,         \* run_id of the request being scored
    signals,        \* the signals generated for the request
    attempt,        \* loop variable of _persist_signals_with_retry
    txn,            \* entities merged in the open transaction, not committed
    store,          \* committed rows of table signals, as every reader sees them
    outcomes,       \* outcome of each save_signals call of the request, in order
    sleeps,         \* the time.sleep delays taken by the request, in order
    persist_ret,    \* return value of _persist_signals_with_retry: none, true, false
    result,         \* the dict returned by score_matches
    store_at_request, \* the committed rows when the request started
    saved,          \* the signal list of the save_signals call that committed
    trigger_log,    \* one entry per trigger_fallback_if_needed call on fb: did it fire
    guard_log,      \* one entry per call on guard: the operation, its inputs, its decision
    other,          \* a second NoBetGuard instance
    other_log       \* one entry per call on other

VARIABLES
    ingest,         \* the IngestPipeline: status, error_cause, error_details, collected_matches
    ingest_pc,      \* position of IngestPipeline.run: idle, collecting, returned
    source,         \* what the primary source answers to the current run
    ingest_result,  \* the IngestionResult of the last run that returned
    ingest_runs,    \* run() calls made on the pipeline
    cancel_requested \* the caller of a scoring request asked to abort it

ivars == <<ingest, ingest_pc, source, ingest_result, ingest_runs>>
hvars == <<trigger_log, guard_log, other, other_log>>
qvars == <<batch, response, pc, results, summary, fb, fb_result, fetch_calls, guard, decision,
           trigger_log, guard_log, other, other_log>>
svars == <<max_retries, sc_pc, run_id, matches, signals, attempt, txn, store, outcomes, sleeps,
           persist_ret, result, store_at_request, saved>>
vars == <<batch, response, pc, results, summary, fb, fb_result, fetch_calls, guard, decision,
          max_retries, sc_pc, run_id, matches, signals, attempt, txn, store, outcomes, sleeps,
          persist_ret, result, store_at_request, saved,
          trigger_log, guard_log, other, other_log,
          ingest, ingest_pc, source, ingest_result, ingest_runs, cancel_requested>>

IngestInit ==
    /\ ingest = NewIngest
    /\ ingest_pc = "idle"
    /\ source = SourceBody("absent", <<>>)
    /\ ingest_result = NoIngestionResult
    /\ ingest_runs = 0

\* ScoringPipeline(max_retries=3), the default used by the /score endpoint
DEFAULT_MAX_RETRIES == 3

QualityInit(b, r) ==
    /\ batch = b
    /\ response = r
    /\ pc = "start"
    /\ results = <<>>
    /\ summary = NoSummary
    /\ fb = NewFallback
    /\ fb_result = NoneResult
    /\ fetch_calls = 0
    /\ guard = NewGuard
    /\ decision = NoDecision
    /\ trigger_log = <<>>
    /\ guard_log = <<>>
    /\ other = NewGuard
    /\ other_log = <<>>

ScoringInit(n) ==
    /\ max_retries = n
    /\ sc_pc = "idle"
    /\ run_id = <<>>
    /\ matches = <<>>
    /\ signals = <<>>
    /\ attempt = 0
    /\ txn = <<>>
    /\ store = {}
    /\ outcomes = <<>>
    /\ sleeps = <<>>
    /\ persist_ret = "none"
    /\ result = InitialResult(<<>>)
    /\ store_at_request = {}
    /\ saved = <<>>

\* the answers of the secondary source met by a run
RunResponses ==
    {Failure("timeout"), Body("games", <<"e1">>), Body("events", <<"bad">>),
     Body("games", <<>>), Body("events", <<"e1", "bad">>)}

\* what a caller of the guard saw of one call: the operation, the inputs of
\* an evaluation and the decision returned
CallRecord(op, quality_summary, fallback_result, d) ==
    [op |-> op,
     critical_failure |-> op = "evaluate" /\ quality_summary.critical_failure,
     fallback_none |-> op # "evaluate" \/ fallback_result.is_none,
     mode |-> d.mode, allow_betting |-> d.allow_betting]

\* the answers of the secondary source, one of each kind
FetchResponses ==
    {Failure("timeout"), Failure("http_error"), Failure("request_exception"),
     Failure("exception"), NullBody("events"), NullBody("games"),
     Body("events", <<"bad">>), Body("games", <<>>), Body("list", <<>>),
     Body("games", <<"e1">>), Body("events", <<"e1", "bad">>),
     Body("events", <<"bad", "e1", "e2">>)}
\* the batches a pipeline is asked about: none, acceptable, critical
TriggerBatches == {<<>>, <<RecPass>>, <<RecIncomplete>>}

\* ------------------------------------------------------ the quality run
\* checker.validate_batch(batch)
Validate ==
    /\ pc = "start"
    /\ results' = validate_batch(batch)
    /\ pc' = "validated"
    /\ UNCHANGED <<batch, response, summary, fb, fb_result, fetch_calls, guard, decision>>
    /\ UNCHANGED hvars
    /\ UNCHANGED svars
    /\ UNCHANGED <<ivars, cancel_requested>>

\* checker.get_quality_summary(results)
Summarize ==
    /\ pc = "validated"
    /\ summary' = get_quality_summary(results)
    /\ pc' = "summarized"
    /\ UNCHANGED <<batch, response, results, fb, fb_result, fetch_calls, guard, decision>>
    /\ UNCHANGED hvars
    /\ UNCHANGED svars
    /\ UNCHANGED <<ivars, cancel_requested>>

\* pipeline.trigger_fallback_if_needed(results), up to the request sent by
\* fetch_from_fallback; a call that does not fire returns None at once
TriggerFallback ==
    /\ pc = "summarized"
    /\ IF TriggerNotNeeded(results)
       THEN /\ fb' = TriggerSkip(fb, results)
            /\ fb_result' = NoneResult
            /\ fetch_calls' = fetch_calls
            /\ pc' = "fallback_done"
       ELSE /\ fb' = TriggerFire(fb, results)
            /\ fb_result' = fb_result
            /\ fetch_calls' = fetch_calls + 1
            /\ pc' = "fetching"
    /\ trigger_log' = Append(trigger_log, [fired |-> ~TriggerNotNeeded(results)])
    /\ UNCHANGED <<batch, response, results, summary, guard, decision>>
    /\ UNCHANGED <<guard_log, other, other_log>>
    /\ UNCHANGED svars
    /\ UNCHANGED <<ivars, cancel_requested>>

\* the secondary source answers: the rest of fetch_from_fallback, then the
\* rest of trigger_fallback_if_needed
FetchReturn ==
    /\ pc = "fetching"
    /\ LET fetched == FetchFinish(fb, response)
       IN  /\ fb' = TriggerComplete(fetched.fb, fetched.ret)
           /\ fb_result' = fetched.ret
    /\ pc' = "fallback_done"
    /\ UNCHANGED <<batch, response, results, summary, fetch_calls, guard, decision>>
    /\ UNCHANGED hvars
    /\ UNCHANGED svars
    /\ UNCHANGED <<ivars, cancel_requested>>

\* guard.evaluate_run_status(summary, fb_result)
Evaluate ==
    /\ pc = "fallback_done"
    /\ decision' = Decide(summary, fb_result)
    /\ guard' = GuardAfter(guard, decision', summary)
    /\ pc' = "decided"
    /\ guard_log' = Append(guard_log, CallRecord("evaluate", summary, fb_result, decision'))
    /\ UNCHANGED <<batch, response, results, summary, fb, fb_result, fetch_calls>>
    /\ UNCHANGED <<trigger_log, other, other_log>>
    /\ UNCHANGED svars
    /\ UNCHANGED <<ivars, cancel_requested>>

\* ------------------------------------------------------------- scoring
\* one save_signals call failed with an exception of the given kind:
\* _persist_signals_with_retry, lines 222-231, and score_matches, lines 116-127
AttemptFailed(kind) ==
    /\ outcomes' = Append(outcomes, kind)
    /\ store' = RollbackTxn(store, txn)
    /\ txn' = <<>>
    /\ IF HasNextAttempt(attempt, max_retries)
       THEN /\ sleeps' = Append(sleeps, BackoffDelay(attempt))
            /\ sc_pc' = "backoff"
            /\ UNCHANGED <<persist_ret, result>>
       ELSE /\ persist_ret' = "false"
            /\ result' = ScoreFailed(result, "Failed to persist signals after all retries")
            /\ sc_pc' = "done"
            /\ UNCHANGED sleeps
    /\ UNCHANGED <<max_retries, run_id, matches, signals, attempt, store_at_request, saved>>

\* pipeline.score_matches(run_id, trace_id, matches), up to the first
\* save_signals call
ScoreMatches(rid, ms) ==
    /\ sc_pc = "idle"
    /\ run_id' = rid
    /\ matches' = ms
    /\ LET scored == ScoredResult(ms)
       IN  /\ signals' = scored.signals
           /\ IF ~NeedsPersist(scored.signals)
              THEN /\ result' = scored
                   /\ persist_ret' = "none"
                   /\ attempt' = 0
                   /\ sc_pc' = "done"
              ELSE IF HasFirstAttempt(max_retries)
              THEN /\ result' = scored
                   /\ persist_ret' = "none"
                   /\ attempt' = 1
                   /\ sc_pc' = "attempt"
              ELSE /\ result' = ScoreFailed(scored, "Failed to persist signals after all retries")
                   /\ persist_ret' = "false"
                   /\ attempt' = 0
                   /\ sc_pc' = "done"
    /\ txn' = <<>>
    /\ outcomes' = <<>>
    /\ sleeps' = <<>>
    /\ saved' = <<>>
    /\ store_at_request' = store
    /\ UNCHANGED <<max_retries, store>>

\* POST /score: any run id, any list of matches
ScoreRequest ==
    /\ \E rid \in RunIds, ms \in SeqsUpTo(SampleMatches, MaxMatches) : ScoreMatches(rid, ms)
    /\ UNCHANGED qvars
    /\ UNCHANGED <<ivars, cancel_requested>>

\* PostgresWriter().save_signals: connect, open the session, build the entities
SaveBegin ==
    /\ sc_pc = "attempt"
    /\ \/ /\ ~BuildRaises(signals)
          /\ sc_pc' = "txn"
          /\ txn' = <<>>
          /\ UNCHANGED <<max_retries, run_id, matches, signals, attempt, store, outcomes, sleeps,
                         persist_ret, result, store_at_request, saved>>
       \/ AttemptFailed("fail")
    /\ UNCHANGED qvars
    /\ UNCHANGED <<ivars, cancel_requested>>

\* session.merge of the next entity
SaveMerge ==
    /\ sc_pc = "txn"
    /\ Len(txn) < Len(signals)
    /\ \/ /\ txn' = Append(txn, SignalEntity(run_id, signals[Len(txn) + 1]))
          /\ store' = StoreDuringMerge(store, SignalEntity(run_id, signals[Len(txn) + 1]))
          /\ UNCHANGED <<max_retries, sc_pc, run_id, matches, signals, attempt, outcomes, sleeps,
                         persist_ret, result, store_at_request, saved>>
       \/ AttemptFailed("fail")
    /\ UNCHANGED qvars
    /\ UNCHANGED <<ivars, cancel_requested>>

\* the end of "with session.begin()": commit, then return True up to score_matches
SaveCommit ==
    /\ sc_pc = "txn"
    /\ Len(txn) = Len(signals)
    /\ \/ /\ store' = CommitTxn(store, txn)
          /\ txn' = <<>>
          /\ outcomes' = Append(outcomes, "ok")
          /\ saved' = signals
          /\ persist_ret' = "true"
          /\ sc_pc' = "done"
          /\ UNCHANGED <<max_retries, run_id, matches, signals, attempt, sleeps, result,
                         store_at_request>>
       \/ AttemptFailed("fail")
    /\ UNCHANGED qvars
    /\ UNCHANGED <<ivars, cancel_requested>>

\* the backoff sleep is over: the next iteration of the retry loop
BackoffDone ==
    /\ sc_pc = "backoff"
    /\ attempt' = attempt + 1
    /\ sc_pc' = "attempt"
    /\ UNCHANGED <<max_retries, run_id, matches, signals, txn, store, outcomes, sleeps,
                   persist_ret, result, store_at_request, saved>>
    /\ UNCHANGED qvars
    /\ UNCHANGED <<ivars, cancel_requested>>

\* the endpoint has answered and the request's pipeline object and locals are
\* gone; the service takes the next request on the same table
ScoreReturn ==
    /\ sc_pc = "done"
    /\ sc_pc' = "idle"
    /\ run_id' = <<>>
    /\ matches' = <<>>
    /\ signals' = <<>>
    /\ attempt' = 0
    /\ txn' = <<>>
    /\ outcomes' = <<>>
    /\ sleeps' = <<>>
    /\ persist_ret' = "none"
    /\ result' = InitialResult(<<>>)
    /\ store_at_request' = store
    /\ saved' = <<>>
    /\ cancel_requested' = FALSE
    /\ UNCHANGED <<max_retries, store>>
    /\ UNCHANGED qvars
    /\ UNCHANGED ivars

\* the run's own scoring request, sent once the guard has decided: neither
\* the endpoint nor score_matches reads the decision
RunMatches == <<SM_home>>
RunScore ==
    /\ pc = "decided"
    /\ ScoreMatches(<<"r">>, RunMatches)
    /\ UNCHANGED qvars
    /\ UNCHANGED <<ivars, cancel_requested>>

\* ---------------------------------------------------------- specifications
\* the scoring service alone, for every retry configuration
InitPersist ==
    /\ QualityInit(<<>>, Failure("timeout"))
    /\ \E n \in 0..MaxRetries : ScoringInit(n)
    /\ IngestInit
    /\ cancel_requested = FALSE

NextPersist ==
    \/ ScoreRequest
    \/ SaveBegin
    \/ SaveMerge
    \/ SaveCommit
    \/ BackoffDone
    \/ ScoreReturn

SpecPersist == InitPersist /\ [][NextPersist]_vars

\* POST /score with matches of every kind, one run id
ScoreRequestAny ==
    /\ \E ms \in SeqsUpTo(ScoringMatches, MaxScored) : ScoreMatches(<<"r">>, ms)
    /\ UNCHANGED qvars
    /\ UNCHANGED <<ivars, cancel_requested>>

\* the scoring service on matches of every kind, with max_retries from
\* below zero to two
InitScoring ==
    /\ QualityInit(<<>>, Failure("timeout"))
    /\ \E n \in (0 - MaxNegRetries)..2 : ScoringInit(n)
    /\ IngestInit
    /\ cancel_requested = FALSE

NextScoring ==
    \/ ScoreRequestAny
    \/ SaveBegin
    \/ SaveMerge
    \/ SaveCommit
    \/ BackoffDone
    \/ ScoreReturn

SpecScoring == InitScoring /\ [][NextScoring]_vars

\* the caller of POST /score gives the request up while the retry loop is in
\* its backoff sleep; nothing in score_matches or in
\* _persist_signals_with_retry reads such a request
CancelRequest ==
    /\ sc_pc = "backoff"
    /\ ~cancel_requested
    /\ cancel_requested' = TRUE
    /\ UNCHANGED <<qvars, svars, ivars>>

\* scoring requests that their caller may abort during a backoff
NextCancel ==
    \/ ScoreRequest
    \/ SaveBegin
    \/ SaveMerge
    \/ SaveCommit
    \/ BackoffDone
    \/ ScoreReturn
    \/ CancelRequest

SpecCancel == InitPersist /\ [][NextCancel]_vars

\* the same FallbackPipeline is asked about another batch
NextBatch ==
    /\ pc = "fallback_done"
    /\ Len(trigger_log) < MaxTriggers
    /\ \E b \in TriggerBatches, r \in FetchResponses :
          /\ batch' = b
          /\ response' = r
    /\ results' = <<>>
    /\ summary' = NoSummary
    /\ fb_result' = NoneResult
    /\ pc' = "start"
    /\ UNCHANGED <<fb, fetch_calls, guard, decision>>
    /\ UNCHANGED hvars
    /\ UNCHANGED svars
    /\ UNCHANGED <<ivars, cancel_requested>>

\* one FallbackPipeline over several batches and every kind of answer
InitFallback ==
    /\ \E b \in TriggerBatches, r \in FetchResponses : QualityInit(b, r)
    /\ ScoringInit(DEFAULT_MAX_RETRIES)
    /\ IngestInit
    /\ cancel_requested = FALSE

NextFallback ==
    \/ Validate
    \/ Summarize
    \/ TriggerFallback
    \/ FetchReturn
    \/ NextBatch

SpecFallback == InitFallback /\ [][NextFallback]_vars

\* the inputs handed to a guard: a summary that is critical or not, a
\* fallback result that is None or a list
GuardSummaries ==
    {get_quality_summary(validate_batch(b)) : b \in {<<RecPass>>, <<RecIncomplete>>}}
GuardFallbackResults == {NoneResult, ListResult(<<RawMatch("e1")>>)}

\* a call of one guard instance returned r
GuardCall(op, quality_summary, fallback_result, onGuard, onOther) ==
    \/ /\ Len(guard_log) < MaxGuardCalls
       /\ guard' = onGuard.guard
       /\ decision' = onGuard.decision
       /\ guard_log' = Append(guard_log,
                              CallRecord(op, quality_summary, fallback_result, onGuard.decision))
       /\ UNCHANGED <<other, other_log>>
    \/ /\ Len(other_log) < MaxOtherCalls
       /\ other' = onOther.guard
       /\ other_log' = Append(other_log,
                              CallRecord(op, quality_summary, fallback_result, onOther.decision))
       /\ UNCHANGED <<guard, decision, guard_log>>

\* guard.evaluate_run_status(quality_summary, fallback_result)
EvaluateRunStatus ==
    /\ \E qs \in GuardSummaries, fr \in GuardFallbackResults :
          GuardCall("evaluate", qs, fr,
                    evaluate_run_status(guard, qs, fr), evaluate_run_status(other, qs, fr))
    /\ UNCHANGED <<batch, response, pc, results, summary, fb, fb_result, fetch_calls,
                   trigger_log>>
    /\ UNCHANGED svars
    /\ UNCHANGED <<ivars, cancel_requested>>

\* guard.force_degraded_mode(reason)
ForceDegradedMode ==
    /\ GuardCall("force", ForcedSummary, NoneResult,
                 force_degraded_mode(guard), force_degraded_mode(other))
    /\ UNCHANGED <<batch, response, pc, results, summary, fb, fb_result, fetch_calls,
                   trigger_log>>
    /\ UNCHANGED svars
    /\ UNCHANGED <<ivars, cancel_requested>>

\* guard.reset_to_normal(reason)
ResetToNormal ==
    /\ GuardCall("reset", ResetSummary, NoneResult,
                 reset_to_normal(guard), reset_to_normal(other))
    /\ UNCHANGED <<batch, response, pc, results, summary, fb, fb_result, fetch_calls,
                   trigger_log>>
    /\ UNCHANGED svars
    /\ UNCHANGED <<ivars, cancel_requested>>

\* two guards, each under any sequence of evaluations and overrides
InitGuard ==
    /\ QualityInit(<<>>, Failure("timeout"))
    /\ ScoringInit(DEFAULT_MAX_RETRIES)
    /\ IngestInit
    /\ cancel_requested = FALSE

NextGuard ==
    \/ EvaluateRunStatus
    \/ ForceDegradedMode
    \/ ResetToNormal

SpecGuard == InitGuard /\ [][NextGuard]_vars

\* run() is called: the pipeline goes to COLLECTING and asks the source
IngestStart ==
    /\ ingest_pc \in {"idle", "returned"}
    /\ ingest_runs < MaxIngestRuns
    /\ \E src \in SourceResponses : source' = src
    /\ ingest' = [ingest EXCEPT !.status = "collecting"]
    /\ ingest_pc' = "collecting"
    /\ ingest_runs' = ingest_runs + 1
    /\ UNCHANGED ingest_result
    /\ UNCHANGED <<qvars, svars, cancel_requested>>

\* the source answered (or the request raised) and run() returns
IngestReturn ==
    /\ ingest_pc = "collecting"
    /\ LET o == IngestRun(ingest, source)
       IN  /\ ingest' = o.pipeline
           /\ ingest_result' = o.result
    /\ ingest_pc' = "returned"
    /\ UNCHANGED <<source, ingest_runs>>
    /\ UNCHANGED <<qvars, svars, cancel_requested>>

\* one IngestPipeline, run up to MaxIngestRuns times
InitIngest ==
    /\ QualityInit(<<>>, Failure("timeout"))
    /\ ScoringInit(DEFAULT_MAX_RETRIES)
    /\ IngestInit
    /\ cancel_requested = FALSE

NextIngest ==
    \/ IngestStart
    \/ IngestReturn

SpecIngest == InitIngest /\ [][NextIngest]_vars

\* the rules on short batches of every kind of record
InitRules ==
    /\ \E b \in SeqsUpTo(RuleRecords, MaxRuleBatch) : QualityInit(b, Failure("timeout"))
    /\ ScoringInit(DEFAULT_MAX_RETRIES)
    /\ IngestInit
    /\ cancel_requested = FALSE

NextRules ==
    \/ Validate
    \/ Summarize

SpecRules == InitRules /\ [][NextRules]_vars

\* the quality checker alone, on every batch of the sample records
InitQuality ==
    /\ \E b \in SeqsUpTo(QualityRecords, MaxBatch) : QualityInit(b, Failure("timeout"))
    /\ ScoringInit(DEFAULT_MAX_RETRIES)
    /\ IngestInit
    /\ cancel_requested = FALSE

NextQuality ==
    \/ Validate
    \/ Summarize

SpecQuality == InitQuality /\ [][NextQuality]_vars

\* one run: validate, summarize, fallback, guard decision, then scoring
Init ==
    /\ \E b \in SeqsUpTo(SampleRecords, MaxBatch), r \in RunResponses : QualityInit(b, r)
    /\ ScoringInit(DEFAULT_MAX_RETRIES)
    /\ IngestInit
    /\ cancel_requested = FALSE

Next ==
    \/ Validate
    \/ Summarize
    \/ TriggerFallback
    \/ FetchReturn
    \/ Evaluate
    \/ RunScore
    \/ SaveBegin
    \/ SaveMerge
    \/ SaveCommit
    \/ BackoffDone
    \/ ScoreReturn

Spec == Init /\ [][Next]_vars

\* ------------------------------------------------------------ properties
Last(seq) == seq[Len(seq)]
PassRateAtLeastAccept(res) ==
    Len(res) > 0 /\ 100 * CountIf(res, "pass") >= (100 - QC_CRITICAL_FAILURE_THRESHOLD) * Len(res)

\* C1: a run with critical_failure = true whose trigger_fallback_if_needed
\* returned None is decided degraded-no-bet with allow_betting = false, and
\* the pipeline's cascading_failure flag is true.
C1_CriticalWithoutFallbackCascades ==
    (pc = "decided" /\ summary.critical_failure /\ fb_result.is_none)
        => /\ decision.mode = "degraded-no-bet"
           /\ ~decision.allow_betting
           /\ fb.cascading_failure

\* C2: a run whose FallbackPipeline ends with cascading_failure = true is
\* decided with allow_betting = false.
C2_CascadingFailureBlocksBetting ==
    (pc = "decided" /\ fb.cascading_failure) => ~decision.allow_betting

\* C3: for a batch whose pass rate is at least 1 - 0.20 the summary reports
\* critical_failure = false and trigger_fallback_if_needed never calls
\* fetch_from_fallback.
C3_AcceptableQualityNeverFetches ==
    (pc \in {"fetching", "fallback_done", "decided"} /\ PassRateAtLeastAccept(results))
        => /\ ~summary.critical_failure
           /\ fetch_calls = 0

\* C4: whenever the summary reports critical_failure = true, the trigger on the
\* same results fires: was_triggered is true, a FALLBACK_TRIGGERED event is
\* logged and fetch_from_fallback is called exactly once.
C4_CriticalFailureFiresFallback ==
    (pc \in {"fallback_done", "decided"} /\ summary.critical_failure)
        => /\ fb.was_triggered
           /\ fetch_calls = 1
           /\ fb.fallback_events # <<>>
           /\ fb.fallback_events[1].type = "FALLBACK_TRIGGERED"

\* C5: evaluate_run_status decides by (critical_failure, fallback_result):
\* not critical -> normal, betting allowed; critical with a fallback result ->
\* degraded-fallback, betting allowed; critical without -> degraded-no-bet,
\* betting refused; betting is refused exactly in mode degraded-no-bet.
C5_GuardDecisionTable ==
    pc = "decided"
        => /\ ~summary.critical_failure
                => (decision.mode = "normal" /\ decision.allow_betting)
           /\ (summary.critical_failure /\ ~fb_result.is_none)
                => (decision.mode = "degraded-fallback" /\ decision.allow_betting)
           /\ (summary.critical_failure /\ fb_result.is_none)
                => (decision.mode = "degraded-no-bet" /\ ~decision.allow_betting)
           /\ ~decision.allow_betting <=> decision.mode = "degraded-no-bet"
           /\ guard.current_mode = decision.mode

C5_Witness ==
    /\ pc = "decided"
    /\ summary.critical_failure
    /\ ~fb_result.is_none
    /\ decision.mode = "degraded-fallback"

\* C6: in a run decided degraded-no-bet no signal is generated or persisted:
\* score_matches and save_signals are not performed for it.
C6_NoSignalWhenNoBet ==
    (pc = "decided" /\ decision.mode = "degraded-no-bet")
        => /\ sc_pc = "idle"
           /\ signals = <<>>
           /\ store = {}

\* C7: persistence is all or nothing: in every state a reader can observe,
\* the table holds either what it held when the request started or a row for
\* every signal of the batch; while an attempt or a backoff is in progress, and
\* after every allowed attempt has failed, nothing of the batch is visible.
NoneVisible == store = store_at_request
AllVisible ==
    \A i \in 1..Len(signals) :
        \E r \in store : r.run_id = run_id /\ r.match_id = signals[i].match_id
C7_AllOrNothing ==
    /\ NoneVisible \/ AllVisible
    /\ sc_pc \in {"attempt", "txn", "backoff"} => NoneVisible
    /\ persist_ret = "false" => NoneVisible
    /\ persist_ret = "true" => AllVisible

C7_Witness ==
    /\ sc_pc = "done"
    /\ persist_ret = "false"
    /\ max_retries = DEFAULT_MAX_RETRIES
    /\ Len(outcomes) = max_retries
    /\ Len(signals) = 2
    /\ signals[1].match_id # signals[2].match_id
    /\ store # {}

\* C8: with max_retries = N >= 1 the retry loop makes k attempts and returns
\* True when the k-th attempt is the first to succeed (k <= N), makes N
\* attempts and returns False when all N fail, and never attempts after a
\* success.
C8_RetryCount ==
    /\ Len(outcomes) <= max_retries
    /\ \A i \in 1..(Len(outcomes) - 1) : outcomes[i] = "fail"
    /\ (outcomes # <<>> /\ Last(outcomes) = "ok") <=> persist_ret = "true"
    /\ (persist_ret = "false" /\ max_retries >= 1)
            => /\ Len(outcomes) = max_retries
               /\ \A i \in 1..Len(outcomes) : outcomes[i] = "fail"
    /\ (sc_pc = "done" /\ signals # <<>>) => persist_ret # "none"
    /\ sc_pc \in {"attempt", "txn", "backoff"} => persist_ret = "none"

C8_Witness ==
    /\ sc_pc = "done"
    /\ max_retries = DEFAULT_MAX_RETRIES
    /\ outcomes = <<"fail", "fail", "ok">>
    /\ persist_ret = "true"

\* C9: persistence is idempotent by (run_id, match_id): the table never holds
\* two rows for one pair; after a committed save every signal's pair has its
\* row, carrying the payload of the last signal of that match in the batch;
\* and a batch whose rows are already stored leaves the table unchanged.
IsLastOfMatch(i) ==
    \A j \in (i + 1)..Len(signals) : signals[j].match_id # signals[i].match_id
RowsOf(rid, mid) == {r \in store : r.run_id = rid /\ r.match_id = mid}
C9_IdempotentUpsert ==
    /\ \A r1, r2 \in store :
          (r1.run_id = r2.run_id /\ r1.match_id = r2.match_id) => r1 = r2
    /\ persist_ret = "true" =>
          \A i \in 1..Len(signals) :
              /\ Cardinality(RowsOf(run_id, signals[i].match_id)) = 1
              /\ IsLastOfMatch(i) =>
                    \A r \in RowsOf(run_id, signals[i].match_id) :
                        r.winner = signals[i].winner
    /\ (persist_ret = "true"
            /\ \A i \in 1..Len(signals) :
                   IsLastOfMatch(i) => SignalEntity(run_id, signals[i]) \in store_at_request)
          => store = store_at_request

C9_Witness ==
    /\ persist_ret = "true"
    /\ Len(signals) = 1
    /\ \E r \in store_at_request :
          /\ r.run_id = run_id
          /\ r.match_id = signals[1].match_id
          /\ r.winner # signals[1].winner
    /\ Cardinality(RowsOf(run_id, signals[1].match_id)) = 1

\* C10: when every allowed attempt to persist fails, score_matches returns
\* status failed with an error cause and no signals; a result with status
\* success and signals means a save_signals call for exactly that list
\* committed.
C10_FailedPersistenceReported ==
    sc_pc = "done"
        => /\ persist_ret = "false"
                => /\ result.status = "failed"
                   /\ result.error_cause # "none"
                   /\ result.signals = <<>>
           /\ (result.status = "success" /\ result.signals # <<>>)
                => /\ saved = result.signals
                   /\ outcomes # <<>>
                   /\ Last(outcomes) = "ok"
                   /\ AllVisible

C10_Witness ==
    /\ sc_pc = "done"
    /\ persist_ret = "false"
    /\ max_retries = DEFAULT_MAX_RETRIES
    /\ Len(outcomes) = max_retries
    /\ signals # <<>>
    /\ result.status = "failed"

\* ------------------------------------------------ the quality checker
Summarized == pc \notin {"start", "validated"}
PassedIndexes == {i \in 1..Len(results) : results[i].status = "pass"}

\* C11 as stated: the summary carries total = number of outcomes, passed =
\* number of pass outcomes, failed = total - passed, pass rate = passed/total
\* exactly (0 for an empty batch) and critical_failure = passed/total < 0.80.
C11_SummaryExactRate ==
    Summarized
        => /\ summary.total_matches = Len(results)
           /\ summary.passed = Cardinality(PassedIndexes)
           /\ summary.failed = summary.total_matches - summary.passed
           /\ summary.pass_rate * summary.total_matches = 100 * summary.passed
           /\ summary.critical_failure
                <=> 5 * summary.passed < 4 * summary.total_matches

\* C11 amended: as above, but the pass rate carried by the summary is
\* passed/total rounded to two decimals (within half a hundredth of the
\* quotient), while critical_failure is decided on the exact quotient; an
\* empty batch gives total 0, rate 0, not critical; 3 of 5 gives 0.6, critical.
C11_SummaryRoundedRate ==
    Summarized
        => /\ summary.total_matches = Len(results)
           /\ summary.passed = Cardinality(PassedIndexes)
           /\ summary.failed = summary.total_matches - summary.passed
           /\ LET d == summary.pass_rate * summary.total_matches - 100 * summary.passed
              IN  -summary.total_matches <= 2 * d /\ 2 * d <= summary.total_matches
           /\ summary.critical_failure
                <=> 5 * summary.passed < 4 * summary.total_matches
           /\ results = <<>>
                => (summary.pass_rate = 0 /\ ~summary.critical_failure)
           /\ (summary.total_matches = 5 /\ summary.passed = 3)
                => (summary.pass_rate = 60 /\ summary.critical_failure)

C11_Witness ==
    /\ Summarized
    /\ summary.total_matches = 3
    /\ summary.passed = 1
    /\ summary.pass_rate = 33
    /\ summary.critical_failure

\* C12: the status of every validation outcome is decided by its rule
\* outcomes: fail if an error-severity outcome failed, otherwise warning if a
\* warning-severity outcome failed, otherwise pass.
ErrorFailed(rr) == \E k \in 1..Len(rr) : ~rr[k].passed /\ rr[k].severity = "error"
WarningFailed(rr) == \E k \in 1..Len(rr) : ~rr[k].passed /\ rr[k].severity = "warning"
C12_StatusFromRuleOutcomes ==
    pc # "start"
        => \A i \in 1..Len(results) :
              /\ results[i].status \in {"pass", "warning", "fail"}
              /\ results[i].status =
                    IF ErrorFailed(results[i].rule_results) THEN "fail"
                    ELSE IF WarningFailed(results[i].rule_results) THEN "warning"
                    ELSE "pass"

\* C13: every record of the batch gets an outcome, every outcome carries one
\* rule outcome per rule, in rule order, and a rule that raised is present
\* there as a failed outcome named <rule>_error.
RuleOrder == <<"completeness", "validity", "consistency", "timeliness">>
C13_EveryRuleRecorded ==
    pc # "start"
        => /\ Len(results) = Len(batch)
           /\ \A i \in 1..Len(results) :
                 LET rr == results[i].rule_results
                 IN  /\ Len(rr) = Len(RuleOrder)
                     /\ \A k \in 1..Len(rr) :
                           \/ rr[k].rule_name = RuleOrder[k]
                           \/ /\ rr[k].rule_name = RuleErrorName(RuleOrder[k])
                              /\ ~rr[k].passed

\* ---------------------------------------------------- the fallback log
IsPrefix(a, b) == Len(a) <= Len(b) /\ \A i \in 1..Len(a) : a[i] = b[i]
FiredCalls == {i \in 1..Len(trigger_log) : trigger_log[i].fired}
LastCallFired == trigger_log # <<>> /\ Last(trigger_log).fired
EventPairs ==
    LET ev == fb.fallback_events
    IN  /\ Len(ev) = 2 * Cardinality(FiredCalls)
        /\ \A k \in 1..Len(ev) :
              IF k % 2 = 1 THEN ev[k].type = "FALLBACK_TRIGGERED"
              ELSE ev[k].type \in {"FALLBACK_SUCCESS", "FALLBACK_FAILED"}

\* C14: over any sequence of trigger_fallback_if_needed calls on one pipeline
\* the event log only grows at its end, and between calls it is a sequence of
\* pairs (FALLBACK_TRIGGERED, then FALLBACK_SUCCESS or FALLBACK_FAILED), one
\* pair for each call that fired and nothing for a call that did not.
C14_EventLogAppendOnly ==
    /\ [](pc # "fetching" => EventPairs)
    /\ [][IsPrefix(fb.fallback_events, fb.fallback_events')]_vars

C14_Witness ==
    /\ pc = "fallback_done"
    /\ Len(trigger_log) = 2
    /\ trigger_log[1].fired
    /\ ~trigger_log[2].fired
    /\ results # <<>>
    /\ Len(fb.fallback_events) = 2

\* C15: a call that fires first logs FALLBACK_TRIGGERED, then fetches, then
\* logs FALLBACK_SUCCESS with the number of records returned, or logs
\* FALLBACK_FAILED with the cause and sets cascading_failure when the fetch
\* returned None; the triggered event is logged while the fetch is pending.
C15_TriggerThenFetchThenOutcome ==
    LET ev == fb.fallback_events
    IN  /\ pc = "fetching"
            => /\ ev # <<>>
               /\ Last(ev).type = "FALLBACK_TRIGGERED"
               /\ fb.was_triggered
               /\ Len(ev) = 2 * Cardinality(FiredCalls) - 1
        /\ (pc = "fallback_done" /\ LastCallFired)
            => /\ Len(ev) >= 2
               /\ ev[Len(ev) - 1].type = "FALLBACK_TRIGGERED"
               /\ IF fb_result.is_none
                  THEN /\ Last(ev).type = "FALLBACK_FAILED"
                       /\ Last(ev).reason = fb.error_cause
                       /\ fb.error_cause # "none"
                       /\ fb.cascading_failure
                  ELSE /\ Last(ev).type = "FALLBACK_SUCCESS"
                       /\ Last(ev).matches_recovered = Len(fb_result.data)
                       /\ Len(fb_result.data) > 0

C15_Witness ==
    /\ pc = "fallback_done"
    /\ LastCallFired
    /\ fb_result.is_none
    /\ Last(fb.fallback_events).type = "FALLBACK_FAILED"
    /\ Last(fb.fallback_events).reason = "FALLBACK_HTTP_ERROR"
    /\ fb.cascading_failure

\* C18: every failed fetch returns None with status failed and the cause of
\* its kind: FALLBACK_TIMEOUT for a timeout, FALLBACK_HTTP_ERROR for an HTTP
\* error status, FALLBACK_UNAVAILABLE for another request failure,
\* FALLBACK_EMPTY_RESPONSE for a response without records, FALLBACK_ERROR for
\* any other exception.
NoRecords(resp) == resp.kind = "body" /\ (resp.items_null \/ resp.items = <<>>)
CauseOfKind(resp) ==
    CASE resp.kind = "timeout" -> "FALLBACK_TIMEOUT"
      [] resp.kind = "http_error" -> "FALLBACK_HTTP_ERROR"
      [] resp.kind = "request_exception" -> "FALLBACK_UNAVAILABLE"
      [] resp.kind = "exception" -> "FALLBACK_ERROR"
      [] NoRecords(resp) -> "FALLBACK_EMPTY_RESPONSE"
      [] OTHER -> "any"
C18_FailureKindsHaveCauses ==
    (pc = "fallback_done" /\ LastCallFired)
        => /\ fb_result.is_none
                => /\ fb.status = "failed"
                   /\ fb.error_cause \in
                        {"FALLBACK_TIMEOUT", "FALLBACK_HTTP_ERROR", "FALLBACK_UNAVAILABLE",
                         "FALLBACK_EMPTY_RESPONSE", "FALLBACK_ERROR"}
           /\ CauseOfKind(response) # "any"
                => /\ fb_result.is_none
                   /\ fb.status = "failed"
                   /\ fb.error_cause = CauseOfKind(response)

\* ------------------------------------------------------ the audit trail
\* C16: every call of evaluate_run_status, force_degraded_mode or
\* reset_to_normal appends one audit entry: after n calls the trail has n
\* entries, the i-th carries the mode and allow_betting of the i-th decision,
\* and a step never removes or changes an earlier entry.
TrailMatchesCalls(g, log) ==
    /\ Len(g.audit_trail) = Len(log)
    /\ \A i \in 1..Len(log) :
          /\ g.audit_trail[i].mode = log[i].mode
          /\ g.audit_trail[i].allow_betting = log[i].allow_betting
C16_OneAuditEntryPerCall ==
    /\ [](TrailMatchesCalls(guard, guard_log) /\ TrailMatchesCalls(other, other_log))
    /\ [][/\ IsPrefix(guard.audit_trail, guard.audit_trail')
          /\ Len(guard.audit_trail') <= Len(guard.audit_trail) + 1]_vars

C16_Witness ==
    /\ Len(guard_log) = 3
    /\ guard_log[1].op = "evaluate"
    /\ guard_log[1].mode = "degraded-fallback"
    /\ guard_log[2].op = "force"
    /\ guard_log[3].op = "reset"
    /\ Len(guard.audit_trail) = 3

\* C17: the audit entry of a force_degraded_mode call carries forced = true
\* and the audit entry of a reset_to_normal call carries reset = true.
Marked(entry, key) ==
    \/ key \in DOMAIN entry /\ entry[key]
    \/ key \in DOMAIN entry.quality_summary /\ entry.quality_summary[key]
C17_OverridesMarkedInTrail ==
    \A i \in 1..Len(guard_log) :
        /\ guard_log[i].op = "force" => Marked(guard.audit_trail[i], "forced")
        /\ guard_log[i].op = "reset" => Marked(guard.audit_trail[i], "reset")

\* C19: the decision of evaluate_run_status and the mode it leaves the guard
\* in depend on the two arguments only: two guards with different call
\* histories that evaluate the same inputs agree, and an evaluation of a
\* summary that is not critical gives normal with betting allowed whatever
\* came before, a forced degraded mode included.
LastIsEvaluate(log) == log # <<>> /\ Last(log).op = "evaluate"
C19_DecisionIgnoresHistory ==
    /\ (/\ LastIsEvaluate(guard_log)
        /\ LastIsEvaluate(other_log)
        /\ Last(guard_log).critical_failure = Last(other_log).critical_failure
        /\ Last(guard_log).fallback_none = Last(other_log).fallback_none)
            => /\ Last(guard_log).mode = Last(other_log).mode
               /\ Last(guard_log).allow_betting = Last(other_log).allow_betting
               /\ guard.current_mode = other.current_mode
               /\ guard.is_degraded = other.is_degraded
    /\ (LastIsEvaluate(guard_log) /\ ~Last(guard_log).critical_failure)
            => /\ Last(guard_log).mode = "normal"
               /\ Last(guard_log).allow_betting
               /\ guard.current_mode = "normal"

C19_Witness ==
    /\ Len(guard_log) = 2
    /\ guard_log[1].op = "force"
    /\ LastIsEvaluate(guard_log)
    /\ ~Last(guard_log).critical_failure
    /\ Len(other_log) = 1
    /\ LastIsEvaluate(other_log)
    /\ ~Last(other_log).critical_failure
    /\ Last(other_log).fallback_none = Last(guard_log).fallback_none
    /\ guard.current_mode = "normal"

\* C20: a guard is degraded exactly when its mode is not normal, in its
\* first state (normal, not degraded) and after every call.
C20_DegradedIffNotNormal ==
    /\ guard.is_degraded <=> guard.current_mode # "normal"
    /\ other.is_degraded <=> other.current_mode # "normal"
    /\ guard.current_mode \in {"normal", "degraded-fallback", "degraded-no-bet"}
    /\ guard_log = <<>> => (guard.current_mode = "normal" /\ ~guard.is_degraded)

C20_Witness ==
    /\ guard_log # <<>>
    /\ Last(guard_log).op = "force"
    /\ guard.is_degraded
    /\ guard.current_mode = "degraded-no-bet"

\* ------------------------------------------------------------ the rules
OutcomesNamed(rr, n) == {k \in 1..Len(rr) : rr[k].rule_name = n}
ScoreBad(v) == v \in {"negative", "nan"}

\* C21: the validity rule fails with severity error on a record with a
\* negative or non-numeric score or with a scheduled_at that is present and
\* cannot be parsed, and such an unparseable record gets status fail.
C21_ValidityRejectsBadScoresAndDates ==
    pc # "start"
        => \A i \in 1..Len(results) :
              LET m == batch[i]
                  rr == results[i].rule_results
                  badDate == m.scheduled_at.kind = "garbage"
              IN  /\ (ScoreBad(m.home_score) \/ ScoreBad(m.away_score) \/ badDate)
                        => /\ OutcomesNamed(rr, "validity") # {}
                           /\ \A k \in OutcomesNamed(rr, "validity") :
                                 ~rr[k].passed /\ rr[k].severity = "error"
                  /\ badDate => results[i].status = "fail"

\* C22: the consistency rule fails with severity error exactly when the two
\* team identifiers are equal ignoring case or a team reference is not
\* present (no key, or null), and passes exactly when both are present with
\* different identifiers.
TeamPresent(t) == t.kind \notin {"absent", "null"}
C22_ConsistencyIffSameOrMissing ==
    pc # "start"
        => \A i \in 1..Len(results) :
              LET m == batch[i]
                  rr == results[i].rule_results
                  bothPresent == TeamPresent(m.home_team) /\ TeamPresent(m.away_team)
                  same == bothPresent /\ Lower(m.home_team.id) = Lower(m.away_team.id)
              IN  \A k \in OutcomesNamed(rr, "consistency") :
                     /\ (~rr[k].passed /\ rr[k].severity = "error") <=> (same \/ ~bothPresent)
                     /\ rr[k].passed <=> (bothPresent /\ ~same)

\* C23: validate_batch gives one outcome per record, in input order: the
\* i-th outcome carries the id of the i-th record and is what validating
\* that record alone gives, also when some records fail.
C23_OneOutcomePerRecordInOrder ==
    pc # "start"
        => /\ Len(results) = Len(batch)
           /\ \A i \in 1..Len(batch) :
                 /\ results[i].match_id = MatchIdOf(batch[i])
                 /\ results[i] = validate_match(batch[i])

C23_Witness ==
    /\ pc = "validated"
    /\ Len(batch) = 2
    /\ batch[1] = RecIncomplete
    /\ batch[2] = RecSecond
    /\ results[1].status = "fail"
    /\ results[2].status = "pass"
    /\ results[2].match_id = "m2"

\* ------------------------------------------------------------ ingestion
\* the collection failed: the request raised, or reading the answer raised
CollectionFailed(src) == src.kind # "json" \/ src.games_kind = "null"
CauseOfSource(src) ==
    CASE src.kind = "timeout" -> "SOURCE_TIMEOUT"
      [] src.kind = "http_error" -> "SOURCE_HTTP_ERROR"
      [] src.kind = "unavailable" -> "SOURCE_UNAVAILABLE"
      [] OTHER -> "PIPELINE_ERROR"

\* C24: a run whose collection from the primary source failed (timeout,
\* HTTP error, source unavailable, any other exception during the fetch)
\* returns status error with matches_count 0, no matches and an error_cause
\* naming the cause, and leaves the pipeline status different from SUCCESS;
\* a run reports success only when the collection did not fail.
C24_FailedCollectionNeverSuccess ==
    /\ ingest_pc = "collecting" => ingest.status # "success"
    /\ ingest_pc = "returned"
          => /\ CollectionFailed(source)
                  => /\ ingest_result.status = "error"
                     /\ ingest_result.matches_count = 0
                     /\ ingest_result.matches = <<>>
                     /\ ingest_result.error_cause # "none"
                     /\ ingest_result.error_cause = CauseOfSource(source)
                     /\ ingest.status # "success"
             /\ ingest_result.status = "success" => ~CollectionFailed(source)

\* a pipeline that succeeded once is run again and the source times out
C24_Witness ==
    /\ ingest_pc = "returned"
    /\ ingest_runs = 2
    /\ source.kind = "timeout"
    /\ ingest.collected_matches # <<>>
    /\ ingest_result.status = "error"
    /\ ingest_result.error_cause = "SOURCE_TIMEOUT"
    /\ ingest.status = "source_error"

\* ------------------------------------------------------------ staleness
\* every record of the batch is valid except that its scheduled time is stale
AllStaleOnly == batch # <<>> /\ \A i \in 1..Len(batch) : batch[i] = RecStale

\* C25: a record that fails only the timeliness rule is scored warning, not
\* fail, and a batch whose records are all valid except for staleness does
\* not trip critical_failure and is decided with allow_betting = true.
C25_StaleOnlyBatchStaysPublishable ==
    AllStaleOnly
        => /\ pc # "start"
                => \A i \in 1..Len(results) : results[i].status = "warning"
           /\ pc \in {"summarized", "fetching", "fallback_done", "decided"}
                => ~summary.critical_failure
           /\ pc = "decided" => decision.allow_betting

\* ------------------------------------------------- the trigger, one call
FirstCallDone == Len(trigger_log) = 1 /\ pc = "fallback_done"
\* the call fired and its fetch failed
FiredAndFetchFailed ==
    /\ trigger_log[1].fired
    /\ fetch_calls = 1
    /\ fb.status = "failed"
    /\ Last(fb.fallback_events).type = "FALLBACK_FAILED"
\* the fallback was not needed and the call did not fire
NotNeededNotFired ==
    /\ ~trigger_log[1].fired
    /\ TriggerNotNeeded(results)
    /\ fetch_calls = 0
    /\ fb.fallback_events = <<>>

\* C26: on a fresh pipeline, after one call of trigger_fallback_if_needed,
\* (result None and cascading_failure) holds exactly when the fallback fired
\* and its fetch failed, and (result None and not cascading_failure) holds
\* exactly when the fallback was not needed and did not fire.
C26_CascadingDisambiguatesNone ==
    FirstCallDone
        => /\ (fb_result.is_none /\ fb.cascading_failure) <=> FiredAndFetchFailed
           /\ (fb_result.is_none /\ ~fb.cascading_failure) <=> NotNeededNotFired

C26_Witness ==
    /\ FirstCallDone
    /\ fb_result.is_none
    /\ fb.cascading_failure
    /\ FiredAndFetchFailed
    /\ response.kind = "timeout"

\* a step that is a call of trigger_fallback_if_needed which does not fire
NonFiringCall ==
    /\ Len(trigger_log') = Len(trigger_log) + 1
    /\ ~Last(trigger_log').fired
ReturnsNoneAtOnce ==
    /\ fetch_calls' = fetch_calls
    /\ fb_result'.is_none
    /\ pc' = "fallback_done"

\* C27 as stated: a call that does not fire returns None at once, makes no
\* fetch and changes nothing of the pipeline.
C27_NonFiringCallChangesNothing ==
    [][NonFiringCall => (ReturnsNoneAtOnce /\ fb' = fb)]_vars

\* C27: a call that does not fire returns None at once, makes no fetch,
\* appends no event and leaves status, cascading_failure, error_cause,
\* error_details and triggered_at unchanged; the one field it may change is
\* was_triggered, which a call on acceptable quality sets to false and a
\* call without validation results leaves alone.
C27_NonFiringCallKeepsReport ==
    [][NonFiringCall
         => /\ ReturnsNoneAtOnce
            /\ fb' = [fb EXCEPT !.was_triggered = IF results = <<>> THEN @ ELSE FALSE]]_vars

\* a call that fired and failed, then a call on acceptable quality
C27_Witness ==
    /\ pc = "fallback_done"
    /\ Len(trigger_log) = 2
    /\ trigger_log[1].fired
    /\ ~trigger_log[2].fired
    /\ results # <<>>
    /\ fb.status = "failed"
    /\ fb.cascading_failure
    /\ fb.error_cause # "none"
    /\ fb.triggered_at_set
    /\ ~fb.was_triggered
    /\ fetch_calls = 1

\* ------------------------------------------------------- normalisation
Normalizable(items) == SelectSeq(items, LAMBDA e : e # "bad")
Normalized(items) ==
    [i \in 1..Len(Normalizable(items)) |-> ConvertEvent(Normalizable(items)[i])]
EventsAnswered ==
    /\ pc = "fallback_done"
    /\ LastCallFired
    /\ response.kind = "body"
    /\ response.format = "events"
    /\ ~response.items_null

\* C28: _convert_thesportsdb_format returns, in input order, exactly the
\* normalised forms of the events whose normalisation does not raise, and
\* fetch_from_fallback succeeds with that list whenever at least one event
\* normalises.
C28_NormalizationSkipsFailures ==
    EventsAnswered
        => /\ _convert_thesportsdb_format(response.items) = Normalized(response.items)
           /\ Normalizable(response.items) # <<>>
                => /\ ~fb_result.is_none
                   /\ fb_result.data = Normalized(response.items)
                   /\ fb.status = "success"
                   /\ Last(fb.fallback_events).type = "FALLBACK_SUCCESS"

\* a failing event first, two good ones after it
C28_Witness ==
    /\ EventsAnswered
    /\ response.items = <<"bad", "e1", "e2">>
    /\ fb_result.data = <<ConvertEvent("e1"), ConvertEvent("e2")>>
    /\ fb.status = "success"

\* ------------------------------------------------------------ the retries
\* C29: once the caller has asked to abort while the retry loop is waiting,
\* no further backoff sleep and no further save_signals attempt is started,
\* and the operation does not report success.
C29_CancelStopsRetries ==
    /\ [](cancel_requested => persist_ret # "true")
    /\ [][cancel_requested => (Len(sleeps') <= Len(sleeps) /\ attempt' <= attempt)]_vars

FailedAttempts == Cardinality({k \in 1..Len(outcomes) : outcomes[k] = "fail"})

ReasonOrder ==
    <<"invalid_status", "missing_data", "insufficient_quality", "insufficient_history">>
\* the reason applies to the match, whatever the other reasons do
Applies(reason, m) ==
    CASE reason = "invalid_status" -> m.status \in {"final", "live", "cancelled"}
      [] reason = "missing_data" -> m.home_stats.kind # "dict" \/ m.away_stats.kind # "dict"
      [] reason = "insufficient_quality" -> m.quality_score < MIN_QUALITY_SCORE
      [] reason = "insufficient_history" ->
            m.home_stats.games < MIN_HISTORY_GAMES \/ m.away_stats.games < MIN_HISTORY_GAMES
FirstApplicable(m) ==
    LET hits == {k \in 1..Len(ReasonOrder) : Applies(ReasonOrder[k], m)}
    IN  IF hits = {} THEN "none"
        ELSE ReasonOrder[CHOOSE k \in hits : \A j \in hits : k <= j]
Scoring == sc_pc # "idle"
ExcludedIndexes == {i \in 1..Len(matches) : FirstApplicable(matches[i]) # "none"}
EligibleIndexes == {i \in 1..Len(matches) : FirstApplicable(matches[i]) = "none"}
\* the elements of seq at the indexes of idx, in order
RECURSIVE Pick(_, _, _)
Pick(seq, idx, from) ==
    IF from > Len(seq) THEN <<>>
    ELSE IF from \in idx THEN <<seq[from]>> \o Pick(seq, idx, from + 1)
    ELSE Pick(seq, idx, from + 1)

C32_EveryMatchAccountedFor ==
    (sc_pc = "done" /\ result.status = "success")
        => /\ \A i \in 1..Len(matches) :
                 \/ \E k \in 1..Len(result.signals) :
                       result.signals[k].match_id = matches[i].external_id
                 \/ \E k \in 1..Len(result.exclusions) :
                       result.exclusions[k].match_id = matches[i].external_id
           /\ result.stats.total = Len(matches)
           /\ result.stats.signals_generated + result.stats.excluded = result.stats.total
           /\ result.stats.signals_generated = result.stats.eligible

\* ------------------------------------------------- the cascading flag
FailedEvents ==
    {k \in 1..Len(fb.fallback_events) : fb.fallback_events[k].type = "FALLBACK_FAILED"}

\* C33: cascading_failure starts false, is never reset, and after any
\* sequence of trigger_fallback_if_needed calls it is true if and only if the
\* event log holds a FALLBACK_FAILED event, also after a later trigger on
\* the same pipeline succeeded.
C33_CascadingFailureMonotone ==
    /\ [](fb.cascading_failure <=> FailedEvents # {})
    /\ [][fb.cascading_failure => fb'.cascading_failure]_vars

\* a trigger whose fetch failed, then a trigger whose fetch succeeded
C33_Witness ==
    /\ pc = "fallback_done"
    /\ Len(trigger_log) = 2
    /\ Len(fb.fallback_events) = 4
    /\ fb.fallback_events[2].type = "FALLBACK_FAILED"
    /\ fb.fallback_events[4].type = "FALLBACK_SUCCESS"
    /\ ~fb_result.is_none
    /\ fb.cascading_failure

\* C34: between calls the report of the pipeline is self-consistent:
\* error_cause is set if and only if status is failed, so status success
\* never comes with the cause of an earlier failed fetch.
C34_ReportSelfConsistent ==
    pc # "fetching" => (fb.error_cause # "none" <=> fb.status = "failed")

\* ------------------------------------------------ what a fetch returns
SuccessEvents ==
    {k \in 1..Len(fb.fallback_events) : fb.fallback_events[k].type = "FALLBACK_SUCCESS"}
FetchReturned == pc \in {"fallback_done", "decided"} /\ LastCallFired

\* C35: fetch_from_fallback returns None or a non-empty list, and on return
\* the status is success exactly when the result is not None and failed
\* otherwise; so every FALLBACK_SUCCESS event counts at least one match and
\* the guard never decides degraded-fallback on an empty dataset.
C35_FetchNoneOrNonEmpty ==
    /\ FetchReturned
          => /\ fb_result.is_none \/ fb_result.data # <<>>
             /\ fb.status = "success" <=> ~fb_result.is_none
             /\ fb.status = "failed" <=> fb_result.is_none
    /\ \A k \in SuccessEvents : fb.fallback_events[k].matches_recovered >= 1
    /\ (pc = "decided" /\ decision.mode = "degraded-fallback")
          => /\ ~fb_result.is_none
             /\ fb_result.data # <<>>
             /\ decision.fallback_matches >= 1

\* a critical batch, a secondary body with one good and one bad event
C35_Witness ==
    /\ pc = "decided"
    /\ response = Body("events", <<"e1", "bad">>)
    /\ decision.mode = "degraded-fallback"
    /\ decision.fallback_matches = 1
    /\ fb.status = "success"

\* ------------------------------------------------- when nothing is saved
Persisting == sc_pc \in {"attempt", "txn", "backoff"}
NoAttemptMade == outcomes = <<>> /\ attempt = 0 /\ txn = <<>> /\ store = store_at_request

\* C36: score_matches tries to persist only when a signal was generated:
\* when every match is excluded or gives no signal, no save_signals attempt is
\* made and the result has status success with no signals.
C36_NoSignalsNoPersistence ==
    /\ Persisting => signals # <<>>
    /\ (sc_pc = "done" /\ signals = <<>>)
          => /\ NoAttemptMade
             /\ persist_ret = "none"
             /\ sleeps = <<>>
             /\ result.status = "success"
             /\ result.signals = <<>>
             /\ result.error_cause = "none"

\* one excluded match and one eligible match whose generation raises, with
\* retries allowed
C36_Witness ==
    /\ sc_pc = "done"
    /\ max_retries >= 1
    /\ matches = <<SM_final, SM_nullstat>>
    /\ signals = <<>>
    /\ result.status = "success"
    /\ result.stats.eligible = 1
    /\ NoAttemptMade

\* C37: with max_retries <= 0 no save_signals attempt is made and the retry
\* loop returns False: a request with at least one generated signal ends
\* with status failed and no signals, and the table is never touched.
C37_NoRetriesMeansFailure ==
    max_retries <= 0
        => /\ ~Persisting
           /\ Scoring => NoAttemptMade
           /\ sleeps = <<>>
           /\ (sc_pc = "done" /\ signals # <<>>)
                 => /\ persist_ret = "false"
                    /\ result.status = "failed"
                    /\ result.signals = <<>>
                    /\ result.error_cause = "Failed to persist signals after all retries"

C37_Witness ==
    /\ max_retries < 0
    /\ sc_pc = "done"
    /\ Len(signals) = 2
    /\ result.status = "failed"
    /\ result.signals = <<>>
    /\ store = {}

\* ------------------------------------------------------------ the row key
\* no stored (run_id, match_id) pair is gone after the step
NoPairLost ==
    \A r \in store : \E q \in store' : q.run_id = r.run_id /\ q.match_id = r.match_id

\* C38: the row id run_id + "_" + match_id is injective on (run_id,
\* match_id): a signal being persisted never takes the id of a stored row of
\* another run or another match, so no save makes a stored pair disappear.
C38_RowKeyInjective ==
    /\ [](\A r \in store : \A i \in 1..Len(signals) :
             SignalRowId(run_id, signals[i].match_id) = r.id
                => (r.run_id = run_id /\ r.match_id = signals[i].match_id))
    /\ [][NoPairLost]_vars
====
